---- MODULE Spec2Model ----
(***************************************************************************)
(* Cortina ear-training lessons: the session hooks (useIntervalLesson,     *)
(* useChordLesson), the playback hooks (useIntervalPlayback,               *)
(* useChordPlayback) and the lesson pages that gate input with lessonMode. *)
(*                                                                         *)
(* React state is modelled twice: st holds the latest value given to each  *)
(* setState, rn holds the values the closures of the last render captured. *)
(* A handler reads rn and writes st; Render copies st to rn and runs the   *)
(* effects.                                                                *)
(***************************************************************************)
EXTENDS Integers, Sequences, FiniteSets, TLC

VARIABLES
    kind,                 \* "interval" | "chord": which lesson is mounted
    st,                   \* React state: latest values set
    rn,                   \* React state as captured by the last render
    hasPlayedInitialRef,  \* page ref: initial playback done for this challenge
    pressedKeysRef,       \* useKeyboard ref: computer keys seen down
    timers,               \* pending feedback timeouts with their closures
    seqs,                 \* playback sequences in flight
    sounding,             \* notes on at the audio engine (attack without release)
    held,                 \* physical keys currently down, <<adapter, midi>>
    nPress,               \* key presses so far
    nCalls,               \* calls made on the bare session hook
    nBatch,               \* calls made on the bare session hook since its last render
    sync,                 \* a discrete event awaits its synchronous render
    last,                 \* what the last step did (calls it made)
    calc                  \* a call of a theory function: its arguments, its result

vars == <<kind, st, rn, hasPlayedInitialRef, pressedKeysRef, timers, seqs,
          sounding, held, nPress, nCalls, nBatch, sync, last, calc>>

-----------------------------------------------------------------------------
(* Program constants *)

CHALLENGES_PER_LESSON == 5
MAX_ATTEMPTS == 7
REVEAL_NAME_AFTER_ATTEMPTS == 3
SHOW_HINTS_AFTER_ATTEMPTS == 4
ROOT_NOTE_MIDI == 60
PIANO_START_NOTE == 48
PIANO_NUM_KEYS == 25
KEYBOARD_MAX_OFFSET == 19

(* Bounds of the model *)

MaxPress == 4     \* key presses per behaviour
MaxSeqs == 2      \* playback sequences in flight at once
MaxShuffle == 1   \* outcomes of the random shuffle that are explored
MaxHeld == 1      \* physical keys down at once
MaxCalls == 8     \* calls per behaviour on the bare session hook
MaxBatch == 2     \* calls on the bare session hook between two renders
LiveWrong == 1    \* challenges the user of the played lesson may answer wrong
MaxActs == 12     \* calls per behaviour on the session hook, one per render
MaxPool == 4      \* challenges in a pool handed to selectRandomChallenges
MaxChord == 3     \* notes in an array handed to checkChordMatch

-----------------------------------------------------------------------------
(* Theory model *)

\* A Note string "<name><octave>" is the pair <<index in noteNames, octave>>.
\* Index -1 stands for a name the pattern [A-G]#? accepts that is not in
\* noteNames (E#, B#); BadNote is a string the pattern rejects.
BadNote == <<-2, 0>>

\* faulty variant: the octave is forced into 0..8
midiToNoteFolded(midiNote) ==
    LET octave == (midiNote \div 12) - 1
    IN <<midiNote % 12, IF octave < 0 THEN 0 ELSE IF octave > 8 THEN 8 ELSE octave>>

midiToNote(midiNote) == <<midiNote % 12, (midiNote \div 12) - 1>>

\* faulty variant: a string the pattern rejects gives no pitch
noteToMidiNoFallback(note) ==
    IF note[1] < -1 THEN -1
    ELSE (note[2] + 1) * 12 + note[1]

noteToMidi(note) ==
    IF note[1] < -1 THEN 60
    ELSE (note[2] + 1) * 12 + note[1]

Clamp(x) == IF x < 0 THEN 0 ELSE IF x > 127 THEN 127 ELSE x

Abs(x) == IF x < 0 THEN -x ELSE x

INTERVALS ==
    << [name |-> "unison", semitones |-> 0],
       [name |-> "minor 2nd", semitones |-> 1],
       [name |-> "major 2nd", semitones |-> 2],
       [name |-> "minor 3rd", semitones |-> 3],
       [name |-> "major 3rd", semitones |-> 4],
       [name |-> "perfect 4th", semitones |-> 5],
       [name |-> "diminished 5th", semitones |-> 6],
       [name |-> "perfect 5th", semitones |-> 7],
       [name |-> "perfect octave", semitones |-> 12] >>

NoInterval == [name |-> "null", semitones |-> -1]

\* faulty variant: the direction is ignored, the target is always above
calculateTargetNoteUp(rootMidi, interval, direction) ==
    LET targetMidi == Clamp(rootMidi + interval.semitones)
    IN [targetNote |-> midiToNote(targetMidi), targetMidi |-> targetMidi]

calculateTargetNote(rootMidi, interval, direction) ==
    LET raw == IF direction = "ascending" THEN rootMidi + interval.semitones
               ELSE IF direction = "descending" THEN rootMidi - interval.semitones
               ELSE rootMidi
        targetMidi == Clamp(raw)
    IN [targetNote |-> midiToNote(targetMidi), targetMidi |-> targetMidi]

\* faulty variant: the signed difference is looked up in the catalog
calculateIntervalSigned(firstMidi, secondMidi) ==
    LET semitones == secondMidi - firstMidi
        direction == IF secondMidi > firstMidi THEN "ascending"
                     ELSE IF secondMidi < firstMidi THEN "descending"
                     ELSE "none"
        hits == {i \in 1..Len(INTERVALS) : INTERVALS[i].semitones = semitones}
        interval == IF hits = {} THEN NoInterval
                    ELSE INTERVALS[CHOOSE i \in hits : \A j \in hits : i <= j]
    IN [interval |-> interval, direction |-> direction]

calculateInterval(firstMidi, secondMidi) ==
    LET semitones == Abs(secondMidi - firstMidi)
        direction == IF secondMidi > firstMidi THEN "ascending"
                     ELSE IF secondMidi < firstMidi THEN "descending"
                     ELSE "none"
        hits == {i \in 1..Len(INTERVALS) : INTERVALS[i].semitones = semitones}
        interval == IF hits = {} THEN NoInterval
                    ELSE INTERVALS[CHOOSE i \in hits : \A j \in hits : i <= j]
    IN [interval |-> interval, direction |-> direction]

IntervalChallenge(rootMidi, interval, direction) ==
    LET t == calculateTargetNote(rootMidi, interval, direction)
    IN [interval |-> interval, direction |-> direction,
        rootNote |-> midiToNote(rootMidi), rootMidi |-> rootMidi,
        targetNote |-> t.targetNote, targetMidi |-> t.targetMidi]

\* faulty variant: the unison is given the two directions like the others
RECURSIVE IntervalPoolBothWays(_, _)
IntervalPoolBothWays(rootMidi, i) ==
    IF i > Len(INTERVALS) THEN <<>>
    ELSE << IntervalChallenge(rootMidi, INTERVALS[i], "ascending"),
            IntervalChallenge(rootMidi, INTERVALS[i], "descending") >>
         \o IntervalPoolBothWays(rootMidi, i + 1)

RECURSIVE IntervalPoolFrom(_, _)
IntervalPoolFrom(rootMidi, i) ==
    IF i > Len(INTERVALS) THEN <<>>
    ELSE LET interval == INTERVALS[i]
             here == IF interval.name = "unison"
                     THEN << IntervalChallenge(rootMidi, interval, "none") >>
                     ELSE << IntervalChallenge(rootMidi, interval, "ascending"),
                             IntervalChallenge(rootMidi, interval, "descending") >>
         IN here \o IntervalPoolFrom(rootMidi, i + 1)

generateIntervalPool(rootMidi) == IntervalPoolFrom(rootMidi, 1)

CHORDS ==
    << [name |-> "major", intervals |-> <<0, 4, 7>>],
       [name |-> "minor", intervals |-> <<0, 3, 7>>],
       [name |-> "diminished", intervals |-> <<0, 3, 6>>],
       [name |-> "augmented", intervals |-> <<0, 4, 8>>] >>

CHORD_ROOT_NOTES == <<48, 50, 52, 53, 55, 57, 59, 60, 62, 64>>

calculateChordNotes(rootMidi, chord) ==
    LET midiNotes == [i \in 1..Len(chord.intervals) |->
                         Clamp(rootMidi + chord.intervals[i])]
    IN [notes |-> [i \in 1..Len(midiNotes) |-> midiToNote(midiNotes[i])],
        midiNotes |-> midiNotes]

ChordChallenge(rootMidi, chord) ==
    LET c == calculateChordNotes(rootMidi, chord)
    IN [chord |-> chord, rootNote |-> midiToNote(rootMidi), rootMidi |-> rootMidi,
        notes |-> c.notes, midiNotes |-> c.midiNotes]

\* faulty variant: C4 is the only root
generateChordPoolOnC4 ==
    [k \in 1..Len(CHORDS) |-> ChordChallenge(60, CHORDS[k])]

generateChordPool ==
    [k \in 1..(Len(CHORD_ROOT_NOTES) * Len(CHORDS)) |->
        ChordChallenge(CHORD_ROOT_NOTES[((k - 1) \div Len(CHORDS)) + 1],
                       CHORDS[((k - 1) % Len(CHORDS)) + 1])]

RECURSIVE Insert(_, _)
Insert(x, s) ==
    IF s = <<>> THEN <<x>>
    ELSE IF x <= Head(s) THEN <<x>> \o s
    ELSE <<Head(s)>> \o Insert(x, Tail(s))

RECURSIVE SortAsc(_)
SortAsc(s) == IF s = <<>> THEN <<>> ELSE Insert(Head(s), SortAsc(Tail(s)))

\* faulty variant: the notes are compared as sets once the lengths agree
checkChordMatchAsSets(playedMidiNotes, expectedMidiNotes) ==
    /\ Len(playedMidiNotes) = Len(expectedMidiNotes)
    /\ {playedMidiNotes[i] : i \in 1..Len(playedMidiNotes)}
          = {expectedMidiNotes[i] : i \in 1..Len(expectedMidiNotes)}

checkChordMatch(playedMidiNotes, expectedMidiNotes) ==
    IF Len(playedMidiNotes) # Len(expectedMidiNotes) THEN FALSE
    ELSE LET sortedPlayed == SortAsc(playedMidiNotes)
             sortedExpected == SortAsc(expectedMidiNotes)
         IN \A i \in 1..Len(sortedPlayed) : sortedPlayed[i] = sortedExpected[i]

\* The shuffle of selectRandomChallenges is any permutation of the pool; the
\* model explores the rotations by 0..MaxShuffle-1 places.
Rotate(pool, r) ==
    [i \in 1..Len(pool) |-> pool[((i - 1 + r) % Len(pool)) + 1]]

Min(a, b) == IF a < b THEN a ELSE b

\* faulty variant: sampling with replacement
selectWithReplacement(pool, count, r) ==
    [i \in 1..Min(count, Len(pool)) |-> Rotate(pool, r)[1]]

\* faulty variant: the whole shuffled pool is returned
selectWithoutSlice(pool, count, r) == Rotate(pool, r)

selectRandomChallenges(pool, count, r) ==
    SubSeq(Rotate(pool, r), 1, Min(count, Len(pool)))

-----------------------------------------------------------------------------
(* Session hooks: useIntervalLesson / useChordLesson *)

NoChallenge == [none |-> TRUE]
NoResult == [hole |-> TRUE]

\* challenges[challengeIndex] || null
CurrentChallenge(s) ==
    IF s.challengeIndex + 1 <= Len(s.challenges)
    THEN s.challenges[s.challengeIndex + 1]
    ELSE NoChallenge

shouldRevealName(s) == s.attempts >= REVEAL_NAME_AFTER_ATTEMPTS

\* faulty variant: the hints come one attempt late
shouldShowHintsLate(s) == s.attempts > SHOW_HINTS_AFTER_ATTEMPTS

shouldShowHints(s) == s.attempts >= SHOW_HINTS_AFTER_ATTEMPTS

Pool == IF kind = "interval" THEN generateIntervalPool(ROOT_NOTE_MIDI)
        ELSE generateChordPool

startLesson(s, r) ==
    [s EXCEPT !.challenges = selectRandomChallenges(Pool, CHALLENGES_PER_LESSON, r),
              !.challengeIndex = 0,
              !.attempts = 0,
              !.results = <<>>,
              !.isComplete = FALSE]

\* the notes a challenge is played back with, in playback order
ChallengeNotes(ch) ==
    IF kind = "interval" THEN <<ch.rootNote, ch.targetNote>> ELSE ch.notes

IntervalCorrect(ch, firstNote, secondNote) ==
    LET p == calculateInterval(noteToMidi(firstNote), noteToMidi(secondNote))
    IN p.interval.name = ch.interval.name /\ p.direction = ch.direction

\* faulty variant: the notes are compared in the order played
ChordCorrectInOrder(ch, playedNotes) ==
    [i \in 1..Len(playedNotes) |-> noteToMidi(playedNotes[i])] = ch.midiNotes

ChordCorrect(ch, playedNotes) ==
    checkChordMatch([i \in 1..Len(playedNotes) |-> noteToMidi(playedNotes[i])],
                    ch.midiNotes)

AnswerCorrect(ch, playedNotes) ==
    IF kind = "interval" THEN IntervalCorrect(ch, playedNotes[1], playedNotes[2])
    ELSE ChordCorrect(ch, playedNotes)

\* faulty variant: the limit compared with > instead of >=
IsLastAttemptOffByOne(newAttempts, correct) == newAttempts > MAX_ATTEMPTS \/ correct

IsLastAttempt(newAttempts, correct) == newAttempts >= MAX_ATTEMPTS \/ correct

HasResult(results, idx) == idx + 1 <= Len(results) /\ results[idx + 1] # NoResult

\* updated = [...prev]; updated[idx] = result   (a JS array: holes are NoResult)
SetAt(prev, idx, result) ==
    [i \in 1..(IF idx + 1 > Len(prev) THEN idx + 1 ELSE Len(prev)) |->
        IF i = idx + 1 THEN result
        ELSE IF i <= Len(prev) THEN prev[i] ELSE NoResult]

\* faulty variant: the attempt is counted although no challenge is current
submitAnswerCountsAlways(cl, s, playedNotes) ==
    LET ch == CurrentChallenge(cl) IN
    IF ch = NoChallenge
    THEN [s |-> [s EXCEPT !.attempts = cl.attempts + 1],
          ret |-> [correct |-> FALSE, isLastAttempt |-> FALSE]]
    ELSE LET correct == AnswerCorrect(ch, playedNotes)
             newAttempts == cl.attempts + 1
             attempt == [playedNotes |-> playedNotes, correct |-> correct]
             isLastAttempt == IsLastAttempt(newAttempts, correct)
             before == IF HasResult(cl.results, cl.challengeIndex)
                       THEN cl.results[cl.challengeIndex + 1].attempts ELSE <<>>
             result == [challenge |-> ch,
                        attempts |-> Append(before, attempt),
                        succeeded |-> correct,
                        attemptsCount |-> newAttempts]
         IN [s |-> [s EXCEPT !.attempts = newAttempts,
                             !.results = IF isLastAttempt
                                         THEN SetAt(@, cl.challengeIndex, result)
                                         ELSE @],
             ret |-> [correct |-> correct, isLastAttempt |-> isLastAttempt]]

\* submitAnswer of the closure that captured cl, applied to the state s.
\* Returns the new state and the returned {correct, isLastAttempt}.
submitAnswer(cl, s, playedNotes) ==
    LET ch == CurrentChallenge(cl) IN
    IF ch = NoChallenge
    THEN [s |-> s, ret |-> [correct |-> FALSE, isLastAttempt |-> FALSE]]
    ELSE LET correct == AnswerCorrect(ch, playedNotes)
             newAttempts == cl.attempts + 1
             attempt == [playedNotes |-> playedNotes, correct |-> correct]
             isLastAttempt == IsLastAttempt(newAttempts, correct)
             before == IF HasResult(cl.results, cl.challengeIndex)
                       THEN cl.results[cl.challengeIndex + 1].attempts ELSE <<>>
             result == [challenge |-> ch,
                        attempts |-> Append(before, attempt),
                        succeeded |-> correct,
                        attemptsCount |-> newAttempts]
         IN [s |-> [s EXCEPT !.attempts = newAttempts,
                             !.results = IF isLastAttempt
                                         THEN SetAt(@, cl.challengeIndex, result)
                                         ELSE @],
             ret |-> [correct |-> correct, isLastAttempt |-> isLastAttempt]]

NoScore == [none |-> TRUE]

\* results.filter((r) => r.succeeded).length  (filter skips the holes)
RECURSIVE CountSucceeded(_)
CountSucceeded(results) ==
    IF results = <<>> THEN 0
    ELSE (IF Head(results) # NoResult /\ Head(results).succeeded THEN 1 ELSE 0)
         + CountSucceeded(Tail(results))

\* faulty variant: every stored result counts as correct
scoreCountsAll(s) ==
    IF s.isComplete
    THEN [totalChallenges |-> Len(s.challenges),
          correctCount |-> Len(s.results),
          results |-> s.results]
    ELSE NoScore

\* the score the hook returns
score(s) ==
    IF s.isComplete
    THEN [totalChallenges |-> Len(s.challenges),
          correctCount |-> CountSucceeded(s.results),
          results |-> s.results]
    ELSE NoScore

\* faulty variant: the attempt count is kept when the index advances
moveToNextChallengeNoReset(cl, s) ==
    LET nextIndex == cl.challengeIndex + 1 IN
    IF nextIndex >= Len(cl.challenges)
    THEN [s EXCEPT !.isComplete = TRUE]
    ELSE [s EXCEPT !.challengeIndex = nextIndex]

moveToNextChallenge(cl, s) ==
    LET nextIndex == cl.challengeIndex + 1 IN
    IF nextIndex >= Len(cl.challenges)
    THEN [s EXCEPT !.isComplete = TRUE]
    ELSE [s EXCEPT !.challengeIndex = nextIndex, !.attempts = 0]

\* faulty variant: the results of the lesson left behind are kept
resetLessonKeepsResults(s) ==
    [s EXCEPT !.challenges = <<>>, !.challengeIndex = 0, !.attempts = 0,
              !.isComplete = FALSE]

resetLesson(s) ==
    [s EXCEPT !.challenges = <<>>, !.challengeIndex = 0, !.attempts = 0,
              !.results = <<>>, !.isComplete = FALSE]

-----------------------------------------------------------------------------
(* The playback hooks and the lesson page, as operators on a record w of    *)
(* everything a handler can touch: st, rn, the refs, the timers, the        *)
(* playback sequences, the audio engine, and the calls made during the      *)
(* current step.                                                            *)

InitialState ==
    [isInitialized |-> FALSE, lessonMode |-> "output", feedbackState |-> "idle",
     buf |-> <<>>, isPlaying |-> FALSE,
     challenges |-> <<>>, challengeIndex |-> 0, attempts |-> 0,
     results |-> <<>>, isComplete |-> FALSE]

World ==
    [st |-> st, rn |-> rn, ref |-> hasPlayedInitialRef, keys |-> pressedKeysRef,
     timers |-> timers, seqs |-> seqs, sounding |-> sounding,
     calls |-> <<>>, submits |-> <<>>, ended |-> <<>>]

On(n) == [c |-> "on", n |-> n]
Off(n) == [c |-> "off", n |-> n]
Gap == [c |-> "gap", n |-> <<0, 0>>]

\* AudioContext.playNote -> audioEngine.noteOn -> synth.triggerAttack
playNote(w, noteStr) ==
    IF ~w.rn.isInitialized THEN w
    ELSE [w EXCEPT !.sounding = @ \cup {noteStr}, !.calls = Append(@, On(noteStr))]

\* AudioContext.stopNote -> audioEngine.noteOff -> synth.triggerRelease
stopNote(w, noteStr) ==
    IF ~w.rn.isInitialized THEN w
    ELSE [w EXCEPT !.sounding = @ \ {noteStr}, !.calls = Append(@, Off(noteStr))]

\* playInterval / playChord up to its first await, called through a closure
\* that captured isPlaying = closureIsPlaying.  cont is what the caller does
\* once the returned promise resolves: "input" for setLessonMode('input'),
\* "none" for a caller that does not wait.
playStart(w, ch, closureIsPlaying, cont) ==
    IF closureIsPlaying THEN w
    ELSE LET notes == ChallengeNotes(ch)
             w1 == playNote([w EXCEPT !.st.isPlaying = TRUE], notes[1])
         IN [w1 EXCEPT !.seqs = Append(@, [notes |-> notes, i |-> 1,
                                           phase |-> "hold",
                                           cont |-> cont,
                                           log |-> <<On(notes[1])>>])]

\* await play(...); setLessonMode('input')  -- the auto-play effect's body and
\* the tail of playIntervalThenInput / playChordThenInput.  When play returns
\* at once the continuation runs in the same task.
playAwaitInput(w, ch, closureIsPlaying) ==
    IF closureIsPlaying THEN [w EXCEPT !.st.lessonMode = "input"]
    ELSE playStart(w, ch, closureIsPlaying, "input")

playThenInput(w, ch, closureIsPlaying) ==
    IF ch = NoChallenge THEN w
    ELSE playAwaitInput([w EXCEPT !.st.lessonMode = "output"], ch, closureIsPlaying)

RemoveAt(s, k) == SubSeq(s, 1, k - 1) \o SubSeq(s, k + 1, Len(s))

\* the finally block and the return of play; resolved tells whether the
\* promise resolves, and then the caller's continuation runs
playFinish(w, k, log, how, resolved) ==
    [w EXCEPT !.seqs = RemoveAt(@, k),
              !.st.isPlaying = FALSE,
              !.st.lessonMode = IF resolved /\ w.seqs[k].cont = "input"
                                THEN "input" ELSE @,
              !.ended = <<[notes |-> w.seqs[k].notes, log |-> log, how |-> how,
                           cont |-> w.seqs[k].cont, resolved |-> resolved]>>]

\* faulty variant: the held note is not stopped before the sequence goes on
seqResumeNoOff(w, k) ==
    LET s == w.seqs[k]
        n == Len(s.notes)
    IN IF s.phase = "hold"
       THEN IF s.i < n
            THEN [w EXCEPT !.seqs[k].phase = "gap",
                           !.seqs[k].log = Append(s.log, Gap)]
            ELSE playFinish(w, k, s.log, "completed", TRUE)
       ELSE LET w1 == playNote(w, s.notes[s.i + 1])
            IN [w1 EXCEPT !.seqs[k].i = s.i + 1,
                          !.seqs[k].phase = "hold",
                          !.seqs[k].log = Append(s.log, On(s.notes[s.i + 1]))]

\* one timer of sequence k resolves: the code up to the next await
seqResume(w, k) ==
    LET s == w.seqs[k]
        n == Len(s.notes)
    IN IF s.phase = "hold"
       THEN LET w1 == stopNote(w, s.notes[s.i])
                log == Append(s.log, Off(s.notes[s.i]))
            IN IF s.i < n
               THEN [w1 EXCEPT !.seqs[k].phase = "gap",
                               !.seqs[k].log = Append(log, Gap)]
               ELSE playFinish(w1, k, log, "completed", TRUE)
       ELSE LET w1 == playNote(w, s.notes[s.i + 1])
            IN [w1 EXCEPT !.seqs[k].i = s.i + 1,
                          !.seqs[k].phase = "hold",
                          !.seqs[k].log = Append(s.log, On(s.notes[s.i + 1]))]

RECURSIVE stopAll(_, _)
stopAll(w, notes) ==
    IF notes = <<>> THEN w ELSE stopAll(stopNote(w, Head(notes)), Tail(notes))

\* faulty variant: no catch block, the rejection reaches the caller
seqAbortNoCatch(w, k) == playFinish(w, k, w.seqs[k].log, "aborted", FALSE)

\* the pending sleep of sequence k rejects: catch, finally, return
seqAbort(w, k) ==
    LET s == w.seqs[k]
        w1 == stopAll(w, s.notes)
        log == s.log \o [i \in 1..Len(s.notes) |-> Off(s.notes[i])]
    IN playFinish(w1, k, log, "aborted", TRUE)

\* handleIntervalCompleted / handleChordCompleted
handleCompleted(w, playedNotes) ==
    LET cl == w.rn
        ch == CurrentChallenge(cl)
    IN IF ch = NoChallenge THEN w
       ELSE LET r == submitAnswer(cl, w.st, playedNotes)
                correct == AnswerCorrect(ch, playedNotes)
                fb == IF correct THEN "correct"
                      ELSE IF r.ret.isLastAttempt THEN "final-fail"
                      ELSE "incorrect"
            IN [w EXCEPT !.st = [r.s EXCEPT !.lessonMode = "output",
                                            !.buf = <<>>,
                                            !.feedbackState = fb],
                         !.submits = Append(@, r.ret),
                         !.timers = Append(@, [correct |-> correct,
                                               isLastAttempt |-> r.ret.isLastAttempt,
                                               cl |-> cl])]

\* faulty variant: the handler does not look at the mode
InputAlwaysAllowed(mode) == mode \in {"input", "output"}

InputAllowed(mode) == mode = "input"

\* the shared note-on handler of the page
handleNotePress(w, noteStr) ==
    IF ~InputAllowed(w.rn.lessonMode) THEN w
    ELSE LET w1 == playNote(w, noteStr) IN
         IF kind = "interval"
         THEN IF w.rn.buf = <<>>
              THEN [w1 EXCEPT !.st.buf = <<noteStr>>]
              ELSE handleCompleted(w1, <<w.rn.buf[1], noteStr>>)
         ELSE LET updated == Append(w.rn.buf, noteStr)
                  w2 == [w1 EXCEPT !.st.buf = updated]
                  ch == CurrentChallenge(w.rn)
              IN IF ch # NoChallenge /\ Len(updated) = Len(ch.notes)
                 THEN handleCompleted(w2, updated)
                 ELSE w2

handleNoteRelease(w, noteStr) == stopNote(w, noteStr)

\* faulty variant: a wrong answer is not followed by a replay
feedbackTimeoutNoReplay(w) ==
    LET t == Head(w.timers)
        w1 == [w EXCEPT !.timers = Tail(@), !.st.feedbackState = "idle"]
    IN IF t.correct \/ t.isLastAttempt
       THEN [w1 EXCEPT !.ref = FALSE, !.st = moveToNextChallenge(t.cl, @)]
       ELSE w1

\* the feedback timeout set by handleCompleted
feedbackTimeout(w) ==
    LET t == Head(w.timers)
        w1 == [w EXCEPT !.timers = Tail(@), !.st.feedbackState = "idle"]
    IN IF t.correct \/ t.isLastAttempt
       THEN [w1 EXCEPT !.ref = FALSE, !.st = moveToNextChallenge(t.cl, @)]
       ELSE playThenInput(w1, CurrentChallenge(t.cl), t.cl.isPlaying)

handleReplay(w) ==
    IF CurrentChallenge(w.rn) # NoChallenge /\ w.rn.lessonMode = "input"
    THEN playThenInput([w EXCEPT !.st.buf = <<>>], CurrentChallenge(w.rn),
                       w.rn.isPlaying)
    ELSE w

KeyboardEnabled(s) == s.isInitialized /\ s.lessonMode = "input"

PianoShown(s) == s.isInitialized /\ ~s.isComplete /\ CurrentChallenge(s) # NoChallenge

\* A render of the page: the closures capture the latest state, then the
\* effects whose dependencies changed run.  r is the outcome of the shuffle
\* should startLesson run.
render(w, r) ==
    LET old == w.rn
        new == w.st
        w1 == [w EXCEPT !.rn = new,
                        !.keys = IF KeyboardEnabled(old) # KeyboardEnabled(new)
                                 THEN {} ELSE @]
        startDeps == \/ old.isInitialized # new.isInitialized
                     \/ CurrentChallenge(old) # CurrentChallenge(new)
                     \/ old.isComplete # new.isComplete
        w2 == IF /\ startDeps
                 /\ new.isInitialized
                 /\ CurrentChallenge(new) = NoChallenge
                 /\ ~new.isComplete
              THEN [w1 EXCEPT !.st = startLesson(@, r)]
              ELSE w1
        playDeps == \/ CurrentChallenge(old) # CurrentChallenge(new)
                    \/ old.isComplete # new.isComplete
    IN IF /\ playDeps
          /\ CurrentChallenge(new) # NoChallenge
          /\ ~w2.ref
          /\ ~new.isComplete
       THEN playAwaitInput([w2 EXCEPT !.ref = TRUE], CurrentChallenge(new),
                           new.isPlaying)
       ELSE w2

-----------------------------------------------------------------------------
(* The composed lesson page: actions *)

Adapters == {"pointer", "midi", "keyboard"}

\* a key that belongs to no answer of the first explored challenges
OtherKey == ROOT_NOTE_MIDI + 2

\* the physical keys the user presses: those of the challenge on screen and
\* one other key
Keys == {OtherKey} \cup
        (IF CurrentChallenge(st) = NoChallenge THEN {}
         ELSE {noteToMidi(ChallengeNotes(CurrentChallenge(st))[i]) :
                  i \in 1..Len(ChallengeNotes(CurrentChallenge(st)))})

\* no theory function is being called
NoCalc == [f |-> "none", arg |-> <<>>, done |-> FALSE, out |-> <<>>]

NoStep == [op |-> "none", seen |-> "-", calls |-> <<>>, submits |-> <<>>,
           ended |-> <<>>]

\* what a step did: the operation, the lessonMode its handler observed (for
\* a delivered note-on), the calls it made to the audio engine, what its
\* submitAnswer calls returned, the playback sequence it ended
Step(op, seen, w) ==
    [op |-> op, seen |-> seen, calls |-> w.calls, submits |-> w.submits,
     ended |-> w.ended]

\* the step ends in world w
Commit(w) ==
    /\ Len(w.seqs) <= MaxSeqs
    /\ st' = w.st
    /\ rn' = w.rn
    /\ hasPlayedInitialRef' = w.ref
    /\ pressedKeysRef' = w.keys
    /\ timers' = w.timers
    /\ seqs' = w.seqs
    /\ sounding' = w.sounding
    /\ kind' = kind
    /\ calc' = calc

Init ==
    /\ kind \in {"interval", "chord"}
    /\ st = InitialState
    /\ rn = InitialState
    /\ hasPlayedInitialRef = FALSE
    /\ pressedKeysRef = {}
    /\ timers = <<>>
    /\ seqs = <<>>
    /\ sounding = {}
    /\ held = {}
    /\ nPress = 0
    /\ nCalls = 0
    /\ nBatch = 0
    /\ sync = FALSE
    /\ last = NoStep
    /\ calc = NoCalc

\* handleStartAudio: the audio engine (and MIDI) come up
StartAudio ==
    /\ ~sync
    /\ ~rn.isInitialized
    /\ ~st.isInitialized
    /\ LET w == [World EXCEPT !.st.isInitialized = TRUE]
       IN Commit(w) /\ last' = Step("start", "-", w)
    /\ sync' = TRUE
    /\ UNCHANGED <<held, nPress, nCalls, nBatch>>

\* React renders the pending state updates
Render ==
    /\ st # rn
    /\ \E r \in 0..(MaxShuffle - 1) :
          LET w == render(World, r)
          IN Commit(w) /\ last' = Step("render", "-", w)
    /\ sync' = FALSE
    /\ UNCHANGED <<held, nPress, nCalls, nBatch>>

\* whether adapter a hands a note event for key m to the page's handlers
Listening(a, m) ==
    CASE a = "pointer" ->
            /\ PianoShown(rn)
            /\ m \in PIANO_START_NOTE..(PIANO_START_NOTE + PIANO_NUM_KEYS - 1)
      [] a = "midi" -> rn.isInitialized
      [] a = "keyboard" ->
            /\ KeyboardEnabled(rn)
            /\ m \in PIANO_START_NOTE..(PIANO_START_NOTE + KEYBOARD_MAX_OFFSET)

\* React renders before the next event after a discrete event (pointer,
\* key, click) whose handler ran; an update made in a MIDI message or in a
\* timer is rendered later
Discrete(a, delivered, w) == a # "midi" /\ delivered /\ w.st # w.rn

\* a key goes down on adapter a: what the page does with it
Press(a, m) ==
    /\ ~sync
    /\ rn.isInitialized
    /\ <<a, m>> \notin held
    /\ Cardinality(held) < MaxHeld
    /\ held' = held \cup {<<a, m>>}
    /\ LET delivered == Listening(a, m) /\ ~(a = "keyboard" /\ m \in pressedKeysRef)
           w0 == IF a = "keyboard" /\ delivered
                 THEN [World EXCEPT !.keys = @ \cup {m}] ELSE World
           w == IF delivered THEN handleNotePress(w0, midiToNote(m)) ELSE w0
       IN /\ Commit(w)
          /\ last' = Step("press", IF delivered THEN rn.lessonMode ELSE "-", w)
          /\ sync' = Discrete(a, delivered, w)
    /\ UNCHANGED <<nCalls, nBatch>>

\* a key press of the bounded exploration
NoteOn(a, m) ==
    /\ nPress < MaxPress
    /\ nPress' = nPress + 1
    /\ Press(a, m)

\* a key goes up on adapter a
NoteOff(a, m) ==
    /\ ~sync
    /\ <<a, m>> \in held
    /\ held' = held \ {<<a, m>>}
    /\ LET delivered == Listening(a, m)
           w0 == IF a = "keyboard" /\ delivered
                 THEN [World EXCEPT !.keys = @ \ {m}] ELSE World
           w == IF delivered THEN handleNoteRelease(w0, midiToNote(m)) ELSE w0
       IN /\ Commit(w)
          /\ last' = Step("release", "-", w)
          /\ sync' = Discrete(a, delivered, w)
    /\ UNCHANGED <<nPress, nCalls, nBatch>>

\* no render is pending: a timeout of 100 ms or more does not end ahead of
\* a render that was already scheduled when it began
Rendered == st = rn

\* the oldest feedback timeout fires
FeedbackTimeout ==
    /\ ~sync
    /\ Rendered
    /\ timers # <<>>
    /\ LET w == feedbackTimeout(World)
       IN Commit(w) /\ last' = Step("timeout", "-", w)
    /\ UNCHANGED <<held, nPress, nCalls, nBatch, sync>>

\* the pending sleep of sequence k resolves
SeqResume(k) ==
    /\ ~sync
    /\ Rendered
    /\ k \in 1..Len(seqs)
    /\ LET w == seqResume(World, k)
       IN Commit(w) /\ last' = Step("resume", "-", w)
    /\ UNCHANGED <<held, nPress, nCalls, nBatch, sync>>

\* the Replay button
Replay ==
    /\ ~sync
    /\ PianoShown(rn)
    /\ rn.lessonMode = "input"
    /\ LET w == handleReplay(World)
       IN /\ Commit(w)
          /\ last' = Step("replay", "-", w)
          /\ sync' = (w.st # w.rn)
    /\ UNCHANGED <<held, nPress, nCalls, nBatch>>

Next ==
    \/ StartAudio
    \/ Render
    \/ \E a \in Adapters, m \in Keys : NoteOn(a, m)
    \/ \E a \in Adapters, m \in {h[2] : h \in held} : NoteOff(a, m)
    \/ FeedbackTimeout
    \/ \E k \in 1..MaxSeqs : SeqResume(k)
    \/ Replay

Spec == Init /\ [][Next]_vars

-----------------------------------------------------------------------------
(* The playback hook on its own, driven the way its tests drive it: the    *)
(* caller invokes play, React renders, the sleeps resolve, and the         *)
(* cancellation token may be aborted while a sleep is pending.             *)

\* the challenges handed to play
PlayChallenges == {Pool[i] : i \in 1..2}

InitPlayback ==
    /\ kind \in {"interval", "chord"}
    /\ st = [InitialState EXCEPT !.isInitialized = TRUE]
    /\ rn = st
    /\ hasPlayedInitialRef = FALSE
    /\ pressedKeysRef = {}
    /\ timers = <<>>
    /\ seqs = <<>>
    /\ sounding = {}
    /\ held = {}
    /\ nPress = 0
    /\ nCalls = 0
    /\ nBatch = 0
    /\ sync = FALSE
    /\ last = NoStep
    /\ calc = NoCalc

\* result.current.playInterval(ch) / playChord(ch) of the last render
PlayCall(ch, cont) ==
    /\ LET w == playStart(World, ch, rn.isPlaying, cont)
       IN Commit(w) /\ last' = Step("play", "-", w)
    /\ UNCHANGED <<held, nPress, nCalls, nBatch, sync>>

\* the hook re-renders: its callbacks capture the latest state
HookRender ==
    /\ st # rn \/ nBatch > 0
    /\ nBatch' = 0
    /\ LET w == [World EXCEPT !.rn = st]
       IN Commit(w) /\ last' = Step("render", "-", w)
    /\ UNCHANGED <<held, nPress, nCalls, sync>>

\* the AbortController of sequence k is aborted while its sleep is pending
Abort(k) ==
    /\ k \in 1..Len(seqs)
    /\ LET w == seqAbort(World, k)
       IN Commit(w) /\ last' = Step("abort", "-", w)
    /\ UNCHANGED <<held, nPress, nCalls, nBatch, sync>>

NextPlayback ==
    \/ \E ch \in PlayChallenges, cont \in {"none", "input"} : PlayCall(ch, cont)
    \/ HookRender
    \/ \E k \in 1..MaxSeqs : SeqResume(k)
    \/ \E k \in 1..MaxSeqs : Abort(k)

SpecPlayback == InitPlayback /\ [][NextPlayback]_vars

-----------------------------------------------------------------------------
(* The session hook on its own, driven the way its tests drive it: the     *)
(* caller invokes the returned operations of the last render, with or      *)
(* without a render between two calls.                                     *)

\* an answer that is wrong for challenge ch: its last note moved up by a
\* major seventh
WrongNotes(ch) ==
    LET notes == ChallengeNotes(ch)
    IN [notes EXCEPT ![Len(notes)] = midiToNote(noteToMidi(@) + 11)]

\* the answers submitted: the right one and a wrong one for the challenge
\* the caller sees
Answers ==
    IF CurrentChallenge(rn) = NoChallenge THEN {<<>>}
    ELSE {ChallengeNotes(CurrentChallenge(rn)), WrongNotes(CurrentChallenge(rn))}

\* the bounds of the bare hook's exploration: one more call, in this batch
HookCall ==
    /\ nCalls < MaxCalls
    /\ nBatch < MaxBatch
    /\ nCalls' = nCalls + 1
    /\ nBatch' = nBatch + 1

\* result.current.startLesson()
CallStartLesson(r) ==
    /\ LET w == [World EXCEPT !.st = startLesson(@, r)]
       IN Commit(w) /\ last' = Step("startLesson", "-", w)
    /\ UNCHANGED <<held, nPress, sync>>

\* result.current.submitAnswer(playedNotes) of the last render
CallSubmitAnswer(playedNotes) ==
    /\ LET r == submitAnswer(rn, st, playedNotes)
           w == [World EXCEPT !.st = r.s, !.submits = <<r.ret>>]
       IN Commit(w) /\ last' = Step("submitAnswer", "-", w)
    /\ UNCHANGED <<held, nPress, sync>>

\* result.current.moveToNextChallenge() of the last render
CallMoveToNextChallenge ==
    /\ LET w == [World EXCEPT !.st = moveToNextChallenge(rn, @)]
       IN Commit(w) /\ last' = Step("moveToNextChallenge", "-", w)
    /\ UNCHANGED <<held, nPress, sync>>

\* result.current.resetLesson()
CallResetLesson ==
    /\ LET w == [World EXCEPT !.st = resetLesson(@)]
       IN Commit(w) /\ last' = Step("resetLesson", "-", w)
    /\ UNCHANGED <<held, nPress, sync>>

HookStartLesson(r) == HookCall /\ CallStartLesson(r)

HookSubmitAnswer(playedNotes) == HookCall /\ CallSubmitAnswer(playedNotes)

HookMoveToNextChallenge == HookCall /\ CallMoveToNextChallenge

HookResetLesson == HookCall /\ CallResetLesson

NextHook ==
    \/ \E r \in 0..(MaxShuffle - 1) : HookStartLesson(r)
    \/ \E playedNotes \in Answers : HookSubmitAnswer(playedNotes)
    \/ HookMoveToNextChallenge
    \/ HookResetLesson
    \/ HookRender

SpecHook == Init /\ [][NextHook]_vars

-----------------------------------------------------------------------------
(* The session hook driven through whole lessons, every call in an act()   *)
(* of its own: the hook re-renders before the next call.                   *)

\* the bounds of this exploration: one more call, the first since the render
ActCall ==
    /\ nCalls < MaxActs
    /\ nBatch = 0
    /\ nCalls' = nCalls + 1
    /\ nBatch' = 1

ActStartLesson(r) == ActCall /\ CallStartLesson(r)

ActSubmitAnswer(playedNotes) == ActCall /\ CallSubmitAnswer(playedNotes)

ActMoveToNextChallenge == ActCall /\ CallMoveToNextChallenge

ActResetLesson == ActCall /\ CallResetLesson

NextActs ==
    \/ \E r \in 0..(MaxShuffle - 1) : ActStartLesson(r)
    \/ \E playedNotes \in Answers : ActSubmitAnswer(playedNotes)
    \/ ActMoveToNextChallenge
    \/ ActResetLesson
    \/ HookRender

SpecActs == Init /\ [][NextActs]_vars

-----------------------------------------------------------------------------------------------------------------------------------------------------
(* The composed lesson page in normal play, with a user who plays a lesson  *)
(* to its end: the user acts on the page as rendered (no note event ahead   *)
(* of a pending render), plays the next note of an answer on any adapter,   *)
(* answers the first LiveWrong challenges right or wrong and the others     *)
(* right, and may press Replay whenever the button is enabled and no key    *)
(* is down.                                                                 *)

\* the keys the user may play next
LiveKeys ==
    IF CurrentChallenge(rn) = NoChallenge \/ rn.isComplete THEN {}
    ELSE LET ch == CurrentChallenge(rn)
             n == Len(rn.buf) + 1
             answers == {ChallengeNotes(ch)} \cup
                        (IF rn.challengeIndex < LiveWrong
                         THEN {WrongNotes(ch)} ELSE {})
         IN {noteToMidi(answer[n]) : answer \in {x \in answers : n <= Len(x)}}

\* a key press of the user
LivePress(a) ==
    /\ Rendered
    /\ \E m \in LiveKeys : Press(a, m)
    /\ nPress' = nPress

\* the Replay button pressed by the user, who holds no key meanwhile
LiveReplay == Rendered /\ held = {} /\ Replay

NextLive ==
    \/ StartAudio
    \/ Render
    \/ \E a \in Adapters : LivePress(a)
    \/ \E h \in held : NoteOff(h[1], h[2])
    \/ FeedbackTimeout
    \/ \E k \in 1..MaxSeqs : SeqResume(k)
    \/ LiveReplay

\* the user can play note n + 1 of an answer and the page will accept it
CanPlay(n) ==
    /\ Rendered
    /\ ~sync
    /\ rn.isInitialized
    /\ rn.lessonMode = "input"
    /\ Len(rn.buf) = n
    /\ Cardinality(held) < MaxHeld
    /\ \E a \in Adapters, m \in LiveKeys :
          /\ <<a, m>> \notin held
          /\ Listening(a, m)
          /\ ~(a = "keyboard" /\ m \in pressedKeysRef)

\* the last step was the user playing note n + 1 of an answer in input mode
Played(n) ==
    /\ last.op = "press"
    /\ last.seen = "input"
    /\ Len(rn.buf) = n

\* The user starts the lesson; React renders what is scheduled; timeouts
\* and playback sleeps end; a key that is down goes up; and a user who can
\* again and again play the next note of an answer does play it.
Fairness ==
    /\ WF_vars(StartAudio)
    /\ WF_vars(Render)
    /\ WF_vars(FeedbackTimeout)
    /\ \A k \in 1..MaxSeqs : WF_vars(SeqResume(k))
    /\ WF_vars(\E h \in held : NoteOff(h[1], h[2]))
    /\ \A n \in 0..2 : []<>CanPlay(n) => []<>Played(n)

SpecLive == Init /\ [][NextLive]_vars /\ Fairness

-----------------------------------------------------------------------------
(* The theory model and the answer check called on their own, the way the  *)
(* unit tests call them: one call per behaviour, its arguments drawn from  *)
(* the sets below.                                                         *)

MidiNotes == 0..127

\* the orders in which the notes of a chord (1..n) can be played
Perms(n) == {p \in [1..n -> 1..n] : \A i, j \in 1..n : p[i] = p[j] => i = j}

\* the session after startLesson, with the shuffle outcome r
Started(r) == startLesson(InitialState, r)

\* the answers submitted to the first challenge of Started(r): for a chord
\* its own notes in every order, for an interval its own two notes and
\* every second note after each first note of AnswerFirst
OwnAnswers(r) ==
    LET notes == ChallengeNotes(CurrentChallenge(Started(r)))
    IN IF kind = "chord"
       THEN {[i \in 1..Len(notes) |-> notes[p[i]]] : p \in Perms(Len(notes))}
       ELSE {notes}

AnswerFirst == {0, ROOT_NOTE_MIDI, 127}

OtherAnswers(r) ==
    IF kind = "chord" THEN {}
    ELSE {<<midiToNote(a), midiToNote(b)>> : a \in AnswerFirst, b \in MidiNotes}

Call(f, arg) == [f |-> f, arg |-> arg, done |-> FALSE, out |-> <<>>]

\* the ill-shaped answers submitted to the first challenge of Started(r):
\* its own notes with a string noteToMidi rejects in one place or in all,
\* and for a chord no note, a note too few and a note too many
IllShapedAnswers(r) ==
    LET notes == ChallengeNotes(CurrentChallenge(Started(r)))
        malformed == {[notes EXCEPT ![i] = BadNote] : i \in 1..Len(notes)}
                        \cup {[i \in 1..Len(notes) |-> BadNote]}
    IN IF kind = "chord"
       THEN malformed \cup {<<>>, SubSeq(notes, 1, Len(notes) - 1),
                            Append(notes, notes[1])}
       ELSE malformed

SubmitCalls ==
    {Call("submitAnswer", <<r, playedNotes>>) :
        r \in 0..(Len(Pool) - 1),
        playedNotes \in UNION {OwnAnswers(q) \cup OtherAnswers(q) : q \in 0..(Len(Pool) - 1)}}
    \cup UNION {{Call("submitAnswer", <<r, playedNotes>>) :
                    playedNotes \in IllShapedAnswers(r)} : r \in 0..(Len(Pool) - 1)}

\* the pools handed to selectRandomChallenges: the first 0..MaxPool
\* challenges of a generated pool; the counts asked for: up to one more
\* than that and 100
SelectCalls ==
    {Call("selectRandomChallenges", <<SubSeq(Pool, 1, n), count, r>>) :
        n \in 0..MaxPool, count \in 0..(MaxPool + 1) \cup {100}, r \in 0..MaxPool}

PoolCalls == {Call("generateIntervalPool", <<rootMidi>>) : rootMidi \in MidiNotes}

Directions == {"ascending", "descending", "none"}

TargetCalls ==
    {Call("calculateTargetNote", <<rootMidi, k, direction>>) :
        rootMidi \in MidiNotes, k \in 1..Len(INTERVALS), direction \in Directions}

IntervalCalls ==
    {Call("calculateInterval", <<a, b>>) : a \in MidiNotes, b \in MidiNotes}

\* the arrays handed to checkChordMatch: up to MaxChord notes of C major
ChordNotes == {60, 64, 67}

ChordArrays == UNION {[1..n -> ChordNotes] : n \in 0..MaxChord}

MatchCalls ==
    {Call("checkChordMatch", <<played, expected>>) :
        played \in ChordArrays, expected \in ChordArrays}

\* the note strings the pattern of noteToMidi accepts, with the octaves -1..9
\* that midiToNote produces, and a string it rejects
NoteStrings == {<<name, octave>> : name \in -1..11, octave \in -1..9} \cup {BadNote}

NoteCalls ==
    {Call("midiToNote", <<midiNote>>) : midiNote \in MidiNotes}
        \cup {Call("noteToMidi", <<note>>) : note \in NoteStrings}

ChordCalls ==
    {Call("calculateChordNotes", <<rootMidi, k>>) :
        rootMidi \in MidiNotes, k \in 1..Len(CHORDS)}

ChordPoolCalls == {Call("generateChordPool", <<>>)}

TheoryCalls ==
    SubmitCalls \cup SelectCalls \cup PoolCalls \cup TargetCalls \cup IntervalCalls
        \cup MatchCalls \cup NoteCalls \cup ChordCalls \cup ChordPoolCalls

InitTheory ==
    /\ kind \in {"interval", "chord"}
    /\ st = InitialState
    /\ rn = InitialState
    /\ hasPlayedInitialRef = FALSE
    /\ pressedKeysRef = {}
    /\ timers = <<>>
    /\ seqs = <<>>
    /\ sounding = {}
    /\ held = {}
    /\ nPress = 0
    /\ nCalls = 0
    /\ nBatch = 0
    /\ sync = FALSE
    /\ last = NoStep
    /\ calc \in TheoryCalls

\* the call returns out
Return(f, out) ==
    /\ calc.f = f
    /\ ~calc.done
    /\ calc' = [calc EXCEPT !.done = TRUE, !.out = out]
    /\ UNCHANGED <<kind, st, rn, hasPlayedInitialRef, pressedKeysRef, timers,
                   seqs, sounding, held, nPress, nCalls, nBatch, sync, last>>

\* startLesson(); submitAnswer(playedNotes) on the first challenge
TheorySubmitAnswer ==
    Return("submitAnswer",
           LET s == Started(calc.arg[1])
           IN [challenge |-> CurrentChallenge(s),
               ret |-> submitAnswer(s, s, calc.arg[2]).ret])

\* selectRandomChallenges(pool, count); the shuffle works on the copy
\* [...pool], so that the array passed in is afterwards what it was
TheorySelectRandomChallenges ==
    Return("selectRandomChallenges",
           [ret |-> selectRandomChallenges(calc.arg[1], calc.arg[2], calc.arg[3]),
            pool |-> calc.arg[1]])

TheoryGenerateIntervalPool ==
    Return("generateIntervalPool", generateIntervalPool(calc.arg[1]))

\* calculateTargetNote(rootMidi, interval, direction) and the interval
\* calculateInterval finds between the root and the target returned
TheoryCalculateTargetNote ==
    Return("calculateTargetNote",
           LET target == calculateTargetNote(calc.arg[1], INTERVALS[calc.arg[2]],
                                             calc.arg[3])
           IN [target |-> target,
               back |-> calculateInterval(calc.arg[1], target.targetMidi)])

TheoryCalculateInterval ==
    Return("calculateInterval", calculateInterval(calc.arg[1], calc.arg[2]))

TheoryCheckChordMatch ==
    Return("checkChordMatch", checkChordMatch(calc.arg[1], calc.arg[2]))

\* midiToNote(midiNote) and noteToMidi of the string returned
TheoryMidiToNote ==
    Return("midiToNote",
           LET note == midiToNote(calc.arg[1])
           IN [note |-> note, back |-> noteToMidi(note)])

\* noteToMidi(note) and, for a pitch in 0..127, midiToNote of the pitch
\* returned
TheoryNoteToMidi ==
    Return("noteToMidi",
           LET midiNote == noteToMidi(calc.arg[1])
           IN [midiNote |-> midiNote,
               back |-> IF midiNote \in MidiNotes THEN midiToNote(midiNote)
                        ELSE BadNote])

TheoryCalculateChordNotes ==
    Return("calculateChordNotes",
           calculateChordNotes(calc.arg[1], CHORDS[calc.arg[2]]))

TheoryGenerateChordPool == Return("generateChordPool", generateChordPool)

NextTheory ==
    \/ TheoryGenerateChordPool
    \/ TheoryCalculateChordNotes
    \/ TheoryMidiToNote
    \/ TheoryNoteToMidi
    \/ TheoryCheckChordMatch
    \/ TheoryCalculateInterval
    \/ TheoryCalculateTargetNote
    \/ TheorySubmitAnswer
    \/ TheorySelectRandomChallenges
    \/ TheoryGenerateIntervalPool

SpecTheory == InitTheory /\ [][NextTheory]_vars

-----------------------------------------------------------------------------
(* Properties *)

\* how many entries of a playback log are calls of kind c ("on" / "off")
Count(log, c) == Cardinality({i \in 1..Len(log) : log[i].c = c})

\* the notes a log has started and not yet stopped
Pending(log) ==
    {log[i].n : i \in {j \in 1..Len(log) :
                          /\ log[j].c = "on"
                          /\ \A l \in (j + 1)..Len(log) : log[l] # Off(log[j].n)}}

\* on(n1), off(n1), gap, on(n2), off(n2), gap, ..., on(nk), off(nk)
RECURSIVE Canon(_)
Canon(notes) ==
    IF notes = <<>> THEN <<>>
    ELSE IF Len(notes) = 1 THEN <<On(notes[1]), Off(notes[1])>>
    ELSE <<On(notes[1]), Off(notes[1]), Gap>> \o Canon(Tail(notes))

\* C1: in every state of the lesson page, while the sequencer is playing
\* (isPlaying) or feedback is shown (feedbackState is not idle), lessonMode
\* is "output".
C1_OutputWhilePlayingOrFeedback ==
    (st.isPlaying \/ st.feedbackState # "idle") => st.lessonMode = "output"

\* C2: a note-on that any adapter delivers to handleNotePress while the
\* handler sees lessonMode = "output" does nothing: no playNote, no change
\* of the partial-input buffer, no submitAnswer, attempts, index and results
\* as before.
C2_NoteOnInOutputModeIsNoOp ==
    [][(last'.op = "press" /\ last'.seen = "output")
         => /\ last'.calls = <<>>
            /\ last'.submits = <<>>
            /\ st' = st
            /\ timers' = timers
            /\ seqs' = seqs
            /\ sounding' = sounding]_vars

\* C2 happens: a note-on was delivered to the handler during a playback,
\* in output mode
C2_Witness ==
    /\ last.op = "press"
    /\ last.seen = "output"
    /\ st.lessonMode = "output"
    /\ seqs # <<>>
    /\ held # {}

\* C3: once submitAnswer has been called for a completed answer and until
\* its feedback ends, a further note-on from any adapter is ignored: it
\* calls no submitAnswer and adds no attempt, even when it arrives before
\* the handlers have seen lessonMode = "output".
C3_NoSubmitWhileFeedbackPending ==
    [][(last'.op = "press" /\ timers # <<>>)
         => /\ last'.submits = <<>>
            /\ st'.attempts = st.attempts
            /\ st'.results = st.results]_vars

\* C4: a play call made while a sequence is in flight issues no note-on and
\* no note-off and leaves the sequence in flight as it is, so that two calls
\* in immediate succession start one sequence only.
C4_PlayWhileInFlightIsNoOp ==
    [][(last'.op = "play" /\ seqs # <<>>)
         => /\ last'.calls = <<>>
            /\ seqs' = seqs]_vars

C6_CanonicalOrder ==
    /\ \A k \in 1..Len(seqs) :
          LET s == seqs[k]
              done == 3 * (s.i - 1) + (IF s.phase = "hold" THEN 1 ELSE 3)
          IN /\ Len(s.log) = done
             /\ done <= Len(Canon(s.notes))
             /\ s.log = SubSeq(Canon(s.notes), 1, done)
    /\ \A i \in 1..Len(last.ended) :
          last.ended[i].how = "completed"
             => last.ended[i].log = Canon(last.ended[i].notes)

\* C6 happens: a chord of three notes has been played to its end
C6_Witness ==
    /\ last.op = "resume"
    /\ last.ended # <<>>
    /\ last.ended[1].how = "completed"
    /\ Len(last.ended[1].notes) = 3
    /\ Len(last.ended[1].log) = 8

\* C7: when the token of a sequence waiting in a hold or a gap is aborted,
\* every note the sequence started and has not stopped gets its note-off, no
\* further note is started, the sequence is gone, isPlaying is false and the
\* play call resolves (the caller's continuation runs).
C7_AbortStopsAndResolves ==
    [][last'.op = "abort"
         => \E k \in 1..Len(seqs) :
               /\ seqs' = RemoveAt(seqs, k)
               /\ \A n \in Pending(seqs[k].log) :
                     \E i \in 1..Len(last'.calls) : last'.calls[i] = Off(n)
               /\ \A i \in 1..Len(last'.calls) : last'.calls[i].c # "on"
               /\ st'.isPlaying = FALSE
               /\ Len(last'.ended) = 1
               /\ last'.ended[1].resolved
               /\ (seqs[k].cont = "input" => st'.lessonMode = "input")]_vars

\* C7 happens: a sequence was aborted while its second note was held
C7_Witness ==
    /\ last.op = "abort"
    /\ last.ended # <<>>
    /\ last.ended[1].how = "aborted"
    /\ Count(last.ended[1].log, "on") = 2
    /\ Off(last.ended[1].notes[2]) \in {last.calls[i] : i \in 1..Len(last.calls)}
    /\ ~st.isPlaying

\* C8: no audio is left stuck: once every key is released and no playback
\* sequence is in flight, no note is on at the audio engine, whatever the
\* adapter and whatever change of mode came between press and release.
C8_NoStuckAudio ==
    (held = {} /\ seqs = <<>> /\ ~sync) => sounding = {}

\* C9: a submitAnswer call on an active challenge that brings the attempt
\* count to n returns isLastAttempt = (correct or n >= 7); when a wrong
\* answer brings it to 7 the result stored for the challenge has
\* succeeded = false and attemptsCount = 7.
C9_IsLastAttemptAtSeven ==
    [][(last'.op = "submitAnswer" /\ CurrentChallenge(rn) # NoChallenge)
         => LET ret == last'.submits[1]
                n == st'.attempts
            IN /\ ret.isLastAttempt = (ret.correct \/ n >= 7)
               /\ (~ret.correct /\ n = 7)
                     => /\ HasResult(st'.results, rn.challengeIndex)
                        /\ ~st'.results[rn.challengeIndex + 1].succeeded
                        /\ st'.results[rn.challengeIndex + 1].attemptsCount = 7]_vars

\* C9 happens: the seventh wrong answer in a row has been submitted
C9_Witness ==
    /\ last.op = "submitAnswer"
    /\ st.attempts = 7
    /\ last.submits = <<[correct |-> FALSE, isLastAttempt |-> TRUE]>>
    /\ HasResult(st.results, st.challengeIndex)

\* C10: every submitAnswer call on an active challenge adds exactly 1 to
\* attempts, also when it follows another call before the hook has been
\* rendered again.
C10_EachSubmitAddsOne ==
    [][(/\ last'.op = "submitAnswer"
        /\ CurrentChallenge(rn) # NoChallenge
        /\ st.challenges = rn.challenges
        /\ st.challengeIndex = rn.challengeIndex)
         => st'.attempts = st.attempts + 1]_vars

\* a submitAnswer call of the step returned isLastAttempt = true
Finalizes(l) ==
    \E i \in 1..Len(l.submits) : l.submits[i].isLastAttempt

\* C11: a ChallengeResult appears at position i only in a step whose
\* submitAnswer call resolves challenge i (returns isLastAttempt = true),
\* every such step stores one, and no result is written for a challenge
\* that already has one.
C11_ResultIffResolved ==
    [][/\ \A i \in 0..(CHALLENGES_PER_LESSON - 1) :
             (HasResult(st'.results, i) /\ ~HasResult(st.results, i))
                => (Finalizes(last') /\ i = rn.challengeIndex)
       /\ Finalizes(last')
             => /\ HasResult(st'.results, rn.challengeIndex)
                /\ ~HasResult(st.results, rn.challengeIndex)]_vars

\* C12: the result a submitAnswer call finalizes holds every attempt
\* submitted for the challenge since it became current, in order: its
\* attempts list is as long as attemptsCount and only its last entry can be
\* correct.  Stated for calls made through the closures of the latest
\* render on a challenge that has no result yet.
C12_ResultHoldsEveryAttempt ==
    [][(/\ last'.op = "submitAnswer"
        /\ Finalizes(last')
        /\ st = rn
        /\ ~HasResult(st.results, st.challengeIndex))
         => LET result == st'.results[rn.challengeIndex + 1]
            IN /\ Len(result.attempts) = result.attemptsCount
               /\ \A i \in 1..(Len(result.attempts) - 1) :
                     ~result.attempts[i].correct]_vars

\* C13 as stated: attempts is set back to 0 exactly in the steps where
\* challengeIndex advances, and does not decrease in any other step of any
\* sequence of session operations.
C13_ResetExactlyOnAdvance ==
    [][/\ st'.challengeIndex > st.challengeIndex => st'.attempts = 0
       /\ st'.challengeIndex <= st.challengeIndex
             => st'.attempts >= st.attempts]_vars

\* C13 amended: every step in which challengeIndex advances sets attempts
\* to 0; startLesson and resetLesson set attempts and challengeIndex to 0;
\* attempts decreases only to 0, and only in startLesson, in resetLesson or
\* in a moveToNextChallenge call that sets challengeIndex to the index after
\* the one it was called at; a submitAnswer call never decreases it.
C13_ResetOnAdvanceOrRestart ==
    [][/\ st'.challengeIndex > st.challengeIndex => st'.attempts = 0
       /\ last'.op \in {"startLesson", "resetLesson"}
             => (st'.attempts = 0 /\ st'.challengeIndex = 0)
       /\ st'.attempts < st.attempts
             => /\ st'.attempts = 0
                /\ \/ last'.op \in {"startLesson", "resetLesson"}
                   \/ /\ last'.op = "moveToNextChallenge"
                      /\ st'.challengeIndex = rn.challengeIndex + 1
       /\ last'.op = "submitAnswer" => st'.attempts >= st.attempts]_vars

\* C13 happens: moveToNextChallenge has advanced from a challenge with
\* attempts made to the next one, and attempts is 0 again
C13_Witness ==
    /\ last.op = "moveToNextChallenge"
    /\ rn.attempts > 0
    /\ st.challengeIndex = rn.challengeIndex + 1
    /\ st.attempts = 0

\* C14: within one lesson (after a startLesson, in the steps that are not
\* startLesson or resetLesson) isComplete goes from false to true only in
\* a moveToNextChallenge call made while challengeIndex is the index of the
\* last selected challenge, it does not go back to false (so it becomes
\* true at most once), and a moveToNextChallenge call made when it is true
\* leaves it true and leaves challengeIndex as it is.
C14_CompleteOnceAtLastIndex ==
    [][(st.challenges # <<>> /\ last'.op \notin {"startLesson", "resetLesson"})
         => /\ (~st.isComplete /\ st'.isComplete)
                  => /\ last'.op = "moveToNextChallenge"
                     /\ st.challengeIndex = Len(st.challenges) - 1
            /\ st.isComplete => st'.isComplete
            /\ (st.isComplete /\ last'.op = "moveToNextChallenge")
                  => st'.challengeIndex = st.challengeIndex]_vars

\* a lesson is being played
InLesson == st.isInitialized /\ ~st.isComplete

\* the step graded a wrong answer that is not the last attempt
WrongNotLast ==
    /\ last.op = "press"
    /\ last.submits = <<[correct |-> FALSE, isLastAttempt |-> FALSE]>>

\* the step ended a playback whose caller then enabled input
ReplayedThenInput ==
    /\ last.op = "resume"
    /\ last.ended # <<>>
    /\ last.ended[1].how = "completed"
    /\ last.ended[1].cont = "input"
    /\ st.lessonMode = "input"

\* C15: in normal play, with a user who keeps completing answers and with
\* the timers firing, every state of a started lesson is followed by a state
\* with isComplete = true (so no state is stuck with the input disabled for
\* ever), and every wrong answer before the attempt limit is followed by a
\* replay after which the input is enabled.
C15_LessonTerminates ==
    /\ InLesson ~> st.isComplete
    /\ WrongNotLast ~> ReplayedThenInput

\* C15 happens: a lesson has been played to its end, its first challenge
\* failed at the attempt limit after replays
C15_Witness ==
    /\ st.isComplete
    /\ Len(st.results) = CHALLENGES_PER_LESSON
    /\ HasResult(st.results, 0)
    /\ ~st.results[1].succeeded
    /\ st.results[1].attemptsCount = MAX_ATTEMPTS

\* C16: score is null while isComplete is false; once a lesson has been
\* played to its end (each of the 5 challenges resolved and followed by
\* moveToNextChallenge) isComplete is true, score.totalChallenges = 5,
\* score.results has one entry per challenge, that of the challenge at the
\* same position, and score.correctCount is the number of results with
\* succeeded = true, a value in 0..5.
C16_ScoreAfterFullLesson ==
    /\ ~st.isComplete => score(st) = NoScore
    /\ st.isComplete
          => LET sc == score(st)
                 idx == 1..CHALLENGES_PER_LESSON
             IN /\ sc # NoScore
                /\ sc.totalChallenges = 5
                /\ Len(sc.results) = 5
                /\ \A i \in idx :
                      /\ HasResult(sc.results, i - 1)
                      /\ sc.results[i].challenge = st.challenges[i]
                /\ sc.correctCount =
                      Cardinality({i \in idx : sc.results[i].succeeded})
                /\ sc.correctCount \in 0..5

\* C16 happens: a lesson was played to its end with four challenges
\* answered right and one failed
C16_Witness ==
    /\ st.isComplete
    /\ score(st) # NoScore
    /\ score(st).correctCount = 4
    /\ Len(score(st).results) = 5

\* C17: in every session state shouldRevealName = (attempts >= 3) and
\* shouldShowHints = (attempts >= 4); attempts is 0, and both are false,
\* initially, after startLesson, after resetLesson and after a
\* moveToNextChallenge that advanced; shouldShowHints implies
\* shouldRevealName.
C17_HintPolicy ==
    /\ shouldRevealName(st) = (st.attempts >= 3)
    /\ shouldShowHints(st) = (st.attempts >= 4)
    /\ shouldShowHints(st) => shouldRevealName(st)
    /\ st.attempts = 0 => (~shouldRevealName(st) /\ ~shouldShowHints(st))
    /\ (\/ last.op \in {"none", "startLesson", "resetLesson"}
        \/ /\ last.op = "moveToNextChallenge"
           /\ st.challengeIndex = rn.challengeIndex + 1)
          => st.attempts = 0

\* C17 happens: the fourth attempt on a challenge has been made and both
\* hints are on
C17_Witness ==
    /\ last.op = "submitAnswer"
    /\ st.attempts = 4
    /\ shouldRevealName(st)
    /\ shouldShowHints(st)

\* the step started a playback of challenge ch whose caller waits for its
\* end to enable the input
StartsPlayback(ch) ==
    /\ Len(seqs') = Len(seqs) + 1
    /\ seqs'[Len(seqs')].notes = ChallengeNotes(ch)
    /\ seqs'[Len(seqs')].cont = "input"
    /\ st'.isPlaying

\* C18: the step that grades an answer sets the mode to 'output'; the
\* feedback timeout of a wrong answer that is not the last attempt starts a
\* replay of the same challenge, that of a correct answer or of the last
\* attempt advances the session, the mode staying 'output'; Replay sets
\* 'output' and starts a playback; and the mode goes back from 'output' to
\* 'input' only in the step that ends a completed playback of the challenge
\* that is then current (the same one after a wrong answer, the next one
\* after an advance), with no feedback pending.
C18_ModeTransitions ==
    [][/\ (last'.op = "press" /\ last'.submits # <<>>)
             => st'.lessonMode = "output"
       /\ (last'.op = "timeout" /\ ~Head(timers).correct
                                /\ ~Head(timers).isLastAttempt)
             => /\ StartsPlayback(CurrentChallenge(Head(timers).cl))
                /\ CurrentChallenge(st') = CurrentChallenge(Head(timers).cl)
                /\ st'.lessonMode = "output"
       /\ (last'.op = "timeout" /\ (Head(timers).correct
                                    \/ Head(timers).isLastAttempt))
             => /\ \/ st'.challengeIndex = st.challengeIndex + 1
                   \/ (~st.isComplete /\ st'.isComplete)
                /\ st'.lessonMode = "output"
       /\ last'.op = "replay"
             => /\ StartsPlayback(CurrentChallenge(st))
                /\ st'.lessonMode = "output"
       /\ (st.lessonMode = "output" /\ st'.lessonMode = "input")
             => /\ last'.op = "resume"
                /\ last'.ended # <<>>
                /\ last'.ended[1].how = "completed"
                /\ last'.ended[1].notes = ChallengeNotes(CurrentChallenge(st'))
                /\ timers' = <<>>
                /\ seqs' = <<>>]_vars

\* C19: the page never calls submitAnswer for a challenge whose result is
\* already finalized: a note-on step that submits an answer finds no result
\* stored for the challenge it grades and no feedback pending of a
\* submission of that challenge that returned isLastAttempt = true.
C19_NoSubmitAfterFinalized ==
    [][(last'.op = "press" /\ last'.submits # <<>>)
         => /\ ~HasResult(st.results, rn.challengeIndex)
            /\ \A i \in 1..Len(timers) :
                  ~(/\ timers[i].isLastAttempt
                    /\ timers[i].cl.challengeIndex = rn.challengeIndex)]_vars

\* the identity key of a challenge: (interval name, direction) or
\* (root note, chord name)
IdentityKey(ch) ==
    IF kind = "interval" THEN <<ch.interval.name, ch.direction>>
    ELSE <<ch.rootNote, ch.chord.name>>

\* C20: after a startLesson call, from whatever session state it is made,
\* challenges holds exactly 5 challenges with pairwise distinct identity
\* keys, all of them from the generated pool, challengeIndex = 0,
\* attempts = 0, results is empty and isComplete = false.
C20_StartLessonResets ==
    [][last'.op = "startLesson"
         => /\ Len(st'.challenges) = 5
            /\ \A i, j \in 1..Len(st'.challenges) :
                  i # j => IdentityKey(st'.challenges[i])
                              # IdentityKey(st'.challenges[j])
            /\ \A i \in 1..Len(st'.challenges) :
                  \E k \in 1..Len(Pool) : Pool[k] = st'.challenges[i]
            /\ st'.challengeIndex = 0
            /\ st'.attempts = 0
            /\ st'.results = <<>>
            /\ ~st'.isComplete]_vars

\* C20 happens: startLesson was called on a session that was complete and
\* had attempts and a result
C20_Witness ==
    /\ last.op = "startLesson"
    /\ rn.isComplete
    /\ rn.attempts > 0
    /\ rn.results # <<>>
    /\ Len(st.challenges) = 5
    /\ ~st.isComplete

\* C21: once isComplete is true the score is a read-only view: no later
\* submitAnswer or moveToNextChallenge call changes totalChallenges,
\* correctCount or results.
\* The lessons looked at were played in full: every challenge has its result.
PlayedInFull(s) ==
    /\ s.challenges # <<>>
    /\ Len(s.results) = Len(s.challenges)
    /\ \A i \in 1..Len(s.results) : s.results[i] # NoResult

C21_ScoreReadOnlyOnceComplete ==
    [][(/\ st.isComplete
        /\ PlayedInFull(st)
        /\ last'.op \in {"submitAnswer", "moveToNextChallenge"})
          => score(st') = score(st)]_vars

\* C22: after resetLesson, called from any session state, the session is
\* the initial 'not started' one: no current challenge, challengeIndex = 0,
\* attempts = 0, no results, isComplete = false and score = null.
C22_ResetLessonRestoresInitial ==
    [][last'.op = "resetLesson" =>
          /\ CurrentChallenge(st') = NoChallenge
          /\ st'.challenges = InitialState.challenges
          /\ st'.challengeIndex = 0
          /\ st'.attempts = 0
          /\ st'.results = <<>>
          /\ st'.isComplete = FALSE
          /\ score(st') = NoScore
          /\ shouldRevealName(st') = FALSE
          /\ shouldShowHints(st') = FALSE]_vars

\* resetLesson was called on a completed lesson that had all its results
C22_Witness ==
    /\ last.op = "resetLesson"
    /\ rn.isComplete
    /\ PlayedInFull(rn)
    /\ st.results = <<>>

\* C23: the sequencer is idle or playing: isPlaying is false initially, is
\* true from the play call that starts a sequence until that sequence ends,
\* and is false again once it has ended, by completion or by cancellation.
C23_IdleOrPlaying == st.isPlaying <=> seqs # <<>>

\* C24: every challenge a lesson can present is answerable: submitAnswer
\* with the challenge's own notes (rootNote then targetNote; the notes of a
\* chord in any order) returns correct = true.
C24_OwnNotesAreCorrect ==
    (/\ calc.f = "submitAnswer"
     /\ calc.done
     /\ calc.arg[2] \in OwnAnswers(calc.arg[1]))
        => /\ calc.out.challenge = Pool[calc.arg[1] + 1]
           /\ calc.out.ret.correct
           /\ calc.out.ret.isLastAttempt

\* a chord answered with its own notes, the last one played first
C24_Witness ==
    /\ calc.f = "submitAnswer"
    /\ calc.done
    /\ kind = "chord"
    /\ calc.arg[2] \in OwnAnswers(calc.arg[1])
    /\ calc.arg[2][1] = calc.out.challenge.notes[3]
    /\ calc.out.challenge.rootMidi = 64
    /\ calc.out.ret.correct

\* C25: for a pool of challenges pairwise distinct by identity key and a
\* count >= 0, selectRandomChallenges returns min(count, pool.length)
\* challenges, each of them in the pool, no two with the same identity key;
\* with count >= pool.length it returns every pool element exactly once;
\* the pool passed in is not modified.
C25_SelectFromPool ==
    (calc.f = "selectRandomChallenges" /\ calc.done) =>
        LET pool == calc.arg[1]
            count == calc.arg[2]
            ret == calc.out.ret
        IN /\ Len(ret) = Min(count, Len(pool))
           /\ \A i \in 1..Len(ret) : \E j \in 1..Len(pool) : ret[i] = pool[j]
           /\ \A i, j \in 1..Len(ret) :
                 IdentityKey(ret[i]) = IdentityKey(ret[j]) => i = j
           /\ count >= Len(pool) =>
                 \A j \in 1..Len(pool) :
                    Cardinality({i \in 1..Len(ret) : ret[i] = pool[j]}) = 1
           /\ calc.out.pool = pool

\* fewer challenges asked for than the pool has, and the shuffle moved them
C25_Witness ==
    /\ calc.f = "selectRandomChallenges"
    /\ calc.done
    /\ Len(calc.arg[1]) = MaxPool
    /\ calc.arg[2] = 2
    /\ Len(calc.out.ret) = 2
    /\ calc.out.ret[1] # calc.arg[1][1]

\* the (interval name, direction) keys of an interval pool, in its order
PoolKeys(pool) == [i \in 1..Len(pool) |-> <<pool[i].interval.name, pool[i].direction>>]

Unclamped ==
    LET semitones == INTERVALS[calc.arg[2]].semitones
    IN calc.out.target.targetMidi =
          (CASE calc.arg[3] = "ascending" -> calc.arg[1] + semitones
             [] calc.arg[3] = "descending" -> calc.arg[1] - semitones
             [] OTHER -> calc.arg[1])

\* C27 (as stated): for every root in 12..108, every interval of the
\* catalog and every direction in {ascending, descending},
\* calculateInterval(root, calculateTargetNote(root, interval,
\* direction).targetMidi) returns the same interval name and the same
\* direction, whenever the target was not clamped.
C27_RoundTrip ==
    (/\ calc.f = "calculateTargetNote"
     /\ calc.done
     /\ calc.arg[1] \in 12..108
     /\ calc.arg[3] \in {"ascending", "descending"}
     /\ Unclamped)
        => /\ calc.out.back.interval.name = INTERVALS[calc.arg[2]].name
           /\ calc.out.back.direction = calc.arg[3]

\* C27 (amended): the same for every interval but the unison, for every
\* root in 0..127 whose target was not clamped (no target of a root in
\* 12..108 is); for the unison the interval name is returned with the
\* direction none, whatever direction was given.
C27_RoundTripNonUnison ==
    (/\ calc.f = "calculateTargetNote"
     /\ calc.done
     /\ calc.arg[3] \in {"ascending", "descending"})
        => /\ calc.arg[1] \in 12..108 => Unclamped
           /\ Unclamped =>
                 /\ calc.out.back.interval.name = INTERVALS[calc.arg[2]].name
                 /\ calc.out.back.direction =
                       (IF INTERVALS[calc.arg[2]].name = "unison" THEN "none"
                        ELSE calc.arg[3])

\* an octave down from the lowest root of the claim, found again
C27_Witness ==
    /\ calc.f = "calculateTargetNote"
    /\ calc.done
    /\ calc.arg = <<12, 9, "descending">>
    /\ calc.out.target.targetMidi = 0
    /\ calc.out.back.interval.name = "perfect octave"
    /\ calc.out.back.direction = "descending"

\* the semitone distances of the catalog
CatalogDistances == {0, 1, 2, 3, 4, 5, 6, 7, 12}

\* C28: for MIDI notes a, b in 0..127 calculateInterval(a, b) returns the
\* direction none iff a = b, ascending iff b > a, descending iff b < a; its
\* interval is the catalog entry at distance |b - a|, and none exactly when
\* that distance is not one of 0..7 and 12; submitAnswer judges an answer
\* whose interval is none incorrect.
C28_IntervalOfTwoNotes ==
    /\ (calc.f = "calculateInterval" /\ calc.done) =>
          LET a == calc.arg[1]
              b == calc.arg[2]
              d == IF b > a THEN b - a ELSE a - b
          IN /\ (calc.out.direction = "none") <=> (a = b)
             /\ (calc.out.direction = "ascending") <=> (b > a)
             /\ (calc.out.direction = "descending") <=> (b < a)
             /\ calc.out.direction \in Directions
             /\ (calc.out.interval = NoInterval) <=> (d \notin CatalogDistances)
             /\ calc.out.interval # NoInterval =>
                   /\ \E k \in 1..Len(INTERVALS) : calc.out.interval = INTERVALS[k]
                   /\ calc.out.interval.semitones = d
    /\ (calc.f = "submitAnswer" /\ calc.done /\ kind = "interval") =>
          LET a == noteToMidi(calc.arg[2][1])
              b == noteToMidi(calc.arg[2][2])
          IN calculateInterval(a, b).interval = NoInterval
                => ~calc.out.ret.correct

\* a major seventh upwards is in no catalog entry
C28_Witness ==
    /\ calc.f = "calculateInterval"
    /\ calc.done
    /\ calc.arg = <<60, 71>>
    /\ calc.out.interval = NoInterval
    /\ calc.out.direction = "ascending"

\* how often the note v occurs in the array s
Occurrences(s, v) == Cardinality({i \in 1..Len(s) : s[i] = v})

\* the array s with its entries in the order p
Permuted(s, p) == [i \in 1..Len(s) |-> s[p[i]]]

\* C29: checkChordMatch(played, expected) is true exactly when the two
\* arrays are equal as multisets: false when the lengths differ, true for
\* ([], []), and the same for every permutation of played or of expected.
C29_MatchIsMultisetEquality ==
    (calc.f = "checkChordMatch" /\ calc.done) =>
        LET played == calc.arg[1]
            expected == calc.arg[2]
        IN /\ calc.out <=> \A v \in ChordNotes :
                               Occurrences(played, v) = Occurrences(expected, v)
           /\ Len(played) # Len(expected) => ~calc.out
           /\ (played = <<>> /\ expected = <<>>) => calc.out
           /\ \A p \in Perms(Len(played)) :
                 checkChordMatch(Permuted(played, p), expected) = calc.out
           /\ \A p \in Perms(Len(expected)) :
                 checkChordMatch(played, Permuted(expected, p)) = calc.out

\* a repeated note, played in another order than expected
C29_Witness ==
    /\ calc.f = "checkChordMatch"
    /\ calc.done
    /\ calc.arg[1] = <<64, 60, 60>>
    /\ calc.arg[2] = <<60, 60, 64>>
    /\ calc.out

\* C30: midiToNote is defined for every MIDI note m in 0..127 and
\* noteToMidi inverts it: noteToMidi(midiToNote(m)) = m, and
\* midiToNote(noteToMidi(s)) = s for every note string s that noteToMidi
\* parses to a pitch in 0..127.
C30_NoteMidiInverse ==
    /\ (calc.f = "midiToNote" /\ calc.done) =>
          /\ calc.out.note[1] \in 0..11
          /\ calc.out.back = calc.arg[1]
    /\ (/\ calc.f = "noteToMidi"
        /\ calc.done
        /\ calc.arg[1] # BadNote
        /\ calc.out.midiNote \in MidiNotes)
          => calc.out.back = calc.arg[1]

\* C31: every MidiNote the theory model produces lies in 0..127: the
\* targetMidi of calculateTargetNote, the midiNotes of calculateChordNotes
\* (any root in 0..127, any catalog entry, any direction), and the result
\* of noteToMidi for a note string it parses (looked at for the 12 names
\* of noteNames).
C31_MidiNotesInRange ==
    /\ (calc.f = "calculateTargetNote" /\ calc.done) =>
          calc.out.target.targetMidi \in MidiNotes
    /\ (calc.f = "calculateChordNotes" /\ calc.done) =>
          \A i \in 1..Len(calc.out.midiNotes) : calc.out.midiNotes[i] \in MidiNotes
    /\ (calc.f = "noteToMidi" /\ calc.done /\ calc.arg[1][1] \in 0..11) =>
          calc.out.midiNote \in MidiNotes

ChordsAt(pool, rootMidi, name) ==
    {i \in 1..Len(pool) : pool[i].rootMidi = rootMidi /\ pool[i].chord.name = name}

\* every challenge of pool carries the notes calculateChordNotes gives
NotesComputed(pool) ==
    \A i \in 1..Len(pool) :
        /\ pool[i].rootNote = midiToNote(pool[i].rootMidi)
        /\ pool[i].midiNotes =
              calculateChordNotes(pool[i].rootMidi, pool[i].chord).midiNotes
        /\ pool[i].notes =
              calculateChordNotes(pool[i].rootMidi, pool[i].chord).notes

AsFallback(playedNotes) ==
    [i \in 1..Len(playedNotes) |->
        IF playedNotes[i] = BadNote THEN midiToNote(60) ELSE playedNotes[i]]

\* C34: for musically wrong or ill-shaped note input submitAnswer,
\* calculateInterval, checkChordMatch and noteToMidi return a structured
\* outcome: a chord answer with the wrong number of notes gives
\* correct = false, an uncatalogued distance gives the interval none, and a
\* malformed note string is evaluated as the fallback pitch 60.
C34_StructuredOutcomes ==
    /\ (calc.f = "noteToMidi" /\ calc.done) =>
          /\ calc.out.midiNote \in Int
          /\ calc.arg[1] = BadNote => calc.out.midiNote = 60
    /\ (calc.f = "calculateInterval" /\ calc.done) =>
          /\ calc.out.direction \in Directions
          /\ calc.out.interval = NoInterval
                \/ \E k \in 1..Len(INTERVALS) : calc.out.interval = INTERVALS[k]
          /\ Abs(calc.arg[2] - calc.arg[1]) \notin CatalogDistances
                => calc.out.interval = NoInterval
    /\ (calc.f = "checkChordMatch" /\ calc.done) => calc.out \in BOOLEAN
    /\ (calc.f = "submitAnswer" /\ calc.done) =>
          /\ calc.out.ret.correct \in BOOLEAN
          /\ calc.out.ret.isLastAttempt \in BOOLEAN
          /\ (kind = "chord" /\ Len(calc.arg[2]) # Len(calc.out.challenge.notes))
                => ~calc.out.ret.correct
          /\ calc.out.ret =
                submitAnswer(Started(calc.arg[1]), Started(calc.arg[1]),
                             AsFallback(calc.arg[2])).ret

\* a chord answered with one note too few, one of them malformed
C34_Witness ==
    /\ calc.f = "submitAnswer"
    /\ calc.done
    /\ kind = "chord"
    /\ Len(calc.arg[2]) = 2
    /\ ~calc.out.ret.correct
    /\ ~calc.out.ret.isLastAttempt

\* C40: an answer that contains a malformed note string is never judged
\* correct: submitAnswer returns correct = false when a submitted note
\* fails to parse.
C40_MalformedNeverCorrect ==
    (/\ calc.f = "submitAnswer"
     /\ calc.done
     /\ \E i \in 1..Len(calc.arg[2]) : calc.arg[2][i] = BadNote)
        => ~calc.out.ret.correct

\* C35: under any sequence of startLesson, submitAnswer,
\* moveToNextChallenge and resetLesson calls the attempts value the hook
\* exposes is in 0..7 and the challengeIndex it exposes is in 0..4.
C35_AttemptsAndIndexInRange ==
    /\ rn.attempts \in 0..MAX_ATTEMPTS
    /\ rn.challengeIndex \in 0..(CHALLENGES_PER_LESSON - 1)

\* C36: a session cannot become complete without having been started:
\* isComplete = true implies that selectedChallenges is not empty, so that
\* moveToNextChallenge on a session that is not started leaves
\* isComplete = false.
C36_CompleteImpliesStarted == st.isComplete => st.challenges # <<>>

\* the values of the session: what the hook keeps besides the page's state
Session(s) ==
    [challenges |-> s.challenges, challengeIndex |-> s.challengeIndex,
     attempts |-> s.attempts, results |-> s.results, isComplete |-> s.isComplete]

\* C37: submitAnswer called when there is no current challenge (session
\* not started, or reset) returns {correct: false, isLastAttempt: false}
\* and leaves attempts, challengeIndex, results and isComplete unchanged.
C37_SubmitWithoutChallenge ==
    [][(last'.op = "submitAnswer" /\ CurrentChallenge(rn) = NoChallenge)
          => /\ last'.submits = <<[correct |-> FALSE, isLastAttempt |-> FALSE]>>
             /\ Session(st') = Session(st)]_vars

\* submitAnswer was called while no challenge was current, after earlier
\* calls, and returned the negative pair
C37_Witness ==
    /\ last.op = "submitAnswer"
    /\ CurrentChallenge(rn) = NoChallenge
    /\ st = rn
    /\ nCalls >= 3
    /\ last.submits = <<[correct |-> FALSE, isLastAttempt |-> FALSE]>>

\* every stored result of s is the result of the challenge at its position
ResultsAligned(s) ==
    \A i \in 1..Len(s.results) :
        s.results[i] # NoResult
            => /\ i <= Len(s.challenges)
               /\ s.results[i].challenge = s.challenges[i]

\* C38: the selected challenges are fixed for the whole lesson and the
\* results stay aligned with them: submitAnswer and moveToNextChallenge
\* never change challenges; once the lesson is started
\* 0 <= challengeIndex < challenges.length; and every stored result at
\* position i has result.challenge = challenges[i].
C38_ChallengesFixedResultsAligned ==
    [][/\ last'.op \in {"submitAnswer", "moveToNextChallenge"}
           => st'.challenges = st.challenges
       /\ st'.challenges # <<>>
           => /\ st'.challengeIndex >= 0
              /\ st'.challengeIndex < Len(st'.challenges)
       /\ ResultsAligned(st')]_vars

\* the render step shows a challenge that was not current at the last
\* render (after startLesson or an advancing moveToNextChallenge)
BecomesCurrent ==
    /\ last'.op = "render"
    /\ CurrentChallenge(rn') # NoChallenge
    /\ CurrentChallenge(rn') # CurrentChallenge(rn)
    /\ ~rn'.isComplete

\* C39: each time a challenge becomes current (after startLesson or an
\* advancing moveToNextChallenge) the lesson page starts exactly one
\* automatic playback of that challenge: the render that shows the new
\* challenge starts one playback of it, the mode being 'output', and a
\* render starts no playback otherwise; the mode stays 'output' until that
\* playback has ended: it goes from 'output' to 'input' only in a step that
\* ends a completed playback of the current challenge; and no render or
\* feedback timeout starts a playback once isComplete is true.
C39_OneAutomaticPlayback ==
    [][/\ BecomesCurrent
           => /\ StartsPlayback(CurrentChallenge(rn'))
              /\ st'.lessonMode = "output"
       /\ (last'.op = "render" /\ seqs' # seqs) => BecomesCurrent
       /\ (st.lessonMode = "output" /\ st'.lessonMode = "input")
           => /\ last'.ended # <<>>
              /\ last'.ended[1].how = "completed"
              /\ last'.ended[1].notes = ChallengeNotes(CurrentChallenge(st'))
       /\ (st'.isComplete /\ last'.op \in {"render", "timeout"})
           => Len(seqs') <= Len(seqs)]_vars

====
